---- MODULE Spec2Model ----
(***************************************************************************)
(* Model of src/src/index.js: the VarInt codec, the status packet framer,  *)
(* the RCON packet codec and the two socket-driven sessions                *)
(* (getMinecraftServerStatus, sendRconCommand).                            *)
(*                                                                         *)
(* JavaScript numbers that may leave the range of TLC's integers are kept  *)
(* as pairs <<hi, lo>> standing for hi * 2^16 + lo with lo in 0..2^16-1    *)
(* ("Num").  The 32-bit operators of JavaScript (&, |, <<, >>>) are        *)
(* modelled on these pairs with their ToInt32 / ToUint32 conversions.      *)
(***************************************************************************)
EXTENDS Integers, Sequences, FiniteSets, TLC

VARIABLES
    \* --- VarInt codec harness
    vi_value,      \* the number handed to varintEncode
    vi_bytes,      \* the Buffer varintEncode returned
    vi_result,     \* what readVarInt(vi_bytes, 0) returned
    vi_pc,         \* "start" | "encoded" | "decoded"
    \* --- RCON packet codec harness
    rc_type,       \* the arguments handed to createRconPacket
    rc_id,
    rc_payload,
    rc_packet,     \* the packet on the wire
    rc_result,     \* what parseRconPacket(rc_packet) returned
    rc_pc,         \* "start" | "created" | "parsed"
    \* --- the call that opened the session
    kind,          \* "status" | "rcon" ("none": no session)
    debug,         \* the value passed for the parameter debug
    timeoutMs,     \* the argument of socket.setTimeout
    \* --- the socket of one session and what its handlers did
    sockState,     \* "connecting" | "open" | "destroyed" | "closed"
    endCalled,     \* socket.end() has been called
    peerEnded,     \* the 'end' event has been emitted
    destroys,      \* number of socket.destroy() calls
    written,       \* the Buffers handed to socket.write, in order
    calls,         \* the resolve / reject calls of the promise, in order
    ev,            \* the event whose handler ran last ("tick": time passed)
    idleTicks,     \* time since the socket's last activity
    chunk,         \* the argument of the last 'data' event
    pending,       \* bytes the peer has sent that no 'data' event delivered yet
    \* --- getMinecraftServerStatus
    resp,          \* the bytes the peer answers with
    data,          \* let data = Buffer.alloc(0)
    hasReceivedResponse,
    \* --- sendRconCommand
    authenticated,
    responseData,
    peerSent       \* number of packets the peer has sent, up to MaxPeerPackets

viVars   == <<vi_value, vi_bytes, vi_result, vi_pc>>
rcVars   == <<rc_type, rc_id, rc_payload, rc_packet, rc_result, rc_pc>>
codecVars == <<viVars, rcVars>>
callVars == <<kind, debug, timeoutMs>>
sockVars == <<sockState, endCalled, peerEnded, destroys, written, calls, ev, idleTicks,
              chunk, pending>>
statVars == <<resp, data, hasReceivedResponse>>
rconVars == <<authenticated, responseData, peerSent>>
vars     == <<codecVars, callVars, sockVars, statVars, rconVars>>

----------------------------------------------------------------------------
(* JavaScript values.  A value is a record tagged by t; an object keeps    *)
(* its members m as a sequence of <<key, value>> in insertion order (an    *)
(* array has its elements a, and members m for the properties a program    *)
(* sets on it).                                                            *)

JUndefined == [t |-> "undefined"]
JNull      == [t |-> "null"]
JBool(b)   == [t |-> "bool", b |-> b]
JNum(n)    == [t |-> "num", n |-> n]
JStr(str)  == [t |-> "str", s |-> str]
JArr(a)    == [t |-> "arr", a |-> a, m |-> <<>>]
JObj(m)    == [t |-> "obj", m |-> m]

----------------------------------------------------------------------------
(* JavaScript numbers and 32-bit operators                                 *)

Half == 256 * 256

NumOfInt(i) == <<i \div Half, i % Half>>

\* defined when the number is within TLC's integers
NumToInt(n) == n[1] * Half + n[2]

Zero == NumOfInt(0)

NumAdd(a, b) ==
    LET lo == a[2] + b[2]
    IN  <<a[1] + b[1] + (lo \div Half), lo % Half>>

NumLT(a, b) == a[1] < b[1] \/ (a[1] = b[1] /\ a[2] < b[2])

\* ToUint32 / ToInt32 of ECMAScript: the number modulo 2^32
ToUint32(n) == <<n[1] % Half, n[2]>>

ToInt32(n) ==
    LET h == n[1] % Half
    IN  <<IF h >= Half \div 2 THEN h - Half ELSE h, n[2]>>

RECURSIVE BitAnd(_, _)
BitAnd(a, b) ==
    IF a = 0 \/ b = 0 THEN 0
    ELSE (IF a % 2 = 1 /\ b % 2 = 1 THEN 1 ELSE 0) + 2 * BitAnd(a \div 2, b \div 2)

RECURSIVE BitOr(_, _)
BitOr(a, b) ==
    IF a = 0 THEN b
    ELSE IF b = 0 THEN a
    ELSE (IF a % 2 = 1 \/ b % 2 = 1 THEN 1 ELSE 0) + 2 * BitOr(a \div 2, b \div 2)

\* a & b
And32(a, b) ==
    LET x == ToUint32(a)
        y == ToUint32(b)
    IN  ToInt32(<<BitAnd(x[1], y[1]), BitAnd(x[2], y[2])>>)

\* a | b
Or32(a, b) ==
    LET x == ToUint32(a)
        y == ToUint32(b)
    IN  ToInt32(<<BitOr(x[1], y[1]), BitOr(x[2], y[2])>>)

RECURSIVE Double(_, _)
Double(u, s) ==
    IF s = 0 THEN u
    ELSE Double(<<(2 * u[1] + ((2 * u[2]) \div Half)) % Half, (2 * u[2]) % Half>>, s - 1)

RECURSIVE Halve(_, _)
Halve(u, s) ==
    IF s = 0 THEN u
    ELSE Halve(<<u[1] \div 2, (u[2] \div 2) + (u[1] % 2) * (Half \div 2)>>, s - 1)

\* a << count: the shift count is taken modulo 32, the result is an int32
Shl32(a, count) == ToInt32(Double(ToUint32(a), count % 32))

\* a >>> count: the result is a uint32
Ushr32(a, count) == Halve(ToUint32(a), count % 32)

----------------------------------------------------------------------------
(* VarInt codec                                                            *)

RECURSIVE EncodeLoop(_, _)
EncodeLoop(value, bytes) ==
    LET temp == NumToInt(And32(value, NumOfInt(127)))
        next == Ushr32(value, 7)
        byte == IF next # Zero THEN BitOr(temp, 128) ELSE temp
    IN  IF next # Zero THEN EncodeLoop(next, Append(bytes, byte))
        ELSE Append(bytes, byte)

varintEncode(value) ==
    EncodeLoop(IF NumLT(value, Zero) THEN NumAdd(Shl32(NumOfInt(1), 32), value) ELSE value,
               <<>>)

RECURSIVE ReadLoop(_, _, _, _)
ReadLoop(buffer, offset, value, position) ==
    IF offset + position >= Len(buffer)
    THEN [thrown |-> TRUE, message |-> "Incomplete data"]
    ELSE LET currentByte == buffer[offset + position + 1]
             v == Or32(value, Shl32(NumOfInt(BitAnd(currentByte, 127)), position * 7))
         IN  IF position + 1 > 5
             THEN [thrown |-> TRUE, message |-> "VarInt too big"]
             ELSE IF BitAnd(currentByte, 128) # 0
             THEN ReadLoop(buffer, offset, v, position + 1)
             ELSE [thrown |-> FALSE, value |-> v, size |-> position + 1]

readVarInt(buffer, offset) == ReadLoop(buffer, offset, Zero, 0)

----------------------------------------------------------------------------
(* Harness of the codec: encode a number, then decode the bytes            *)

ViHi == {-32768, -32767, -1, 0, 1, 31, 32, 4095, 4096, 32767, 32768, 65535}
ViLo == {0, 1, 127, 128, 16383, 16384, 65535}

\* numbers in -2^31 .. 2^32 - 1
VarIntInputs == {<<h, l>> : h \in ViHi, l \in ViLo}

ViIdle ==
    /\ vi_value = Zero /\ vi_bytes = <<>> /\ vi_result = [thrown |-> TRUE, message |-> ""]
    /\ vi_pc = "off"

RcIdle ==
    /\ rc_type = 0 /\ rc_id = 0 /\ rc_payload = <<>> /\ rc_packet = <<>>
    /\ rc_result = [thrown |-> TRUE, message |-> ""] /\ rc_pc = "idle"

SockIdle ==
    /\ sockState = "closed" /\ endCalled = FALSE /\ peerEnded = FALSE /\ destroys = 0
    /\ written = <<>> /\ calls = <<>> /\ ev = "none" /\ chunk = <<>> /\ pending = <<>>
    /\ idleTicks = 0

CallIdle == kind = "none" /\ debug = JUndefined /\ timeoutMs = 0

StatIdle == resp = <<>> /\ data = <<>> /\ hasReceivedResponse = FALSE

RconIdle == authenticated = FALSE /\ responseData = <<>> /\ peerSent = 0

InitVarInt ==
    /\ vi_value \in VarIntInputs
    /\ vi_bytes = <<>>
    /\ vi_result = [thrown |-> TRUE, message |-> ""]
    /\ vi_pc = "start"
    /\ RcIdle /\ CallIdle /\ SockIdle /\ StatIdle /\ RconIdle

Encode ==
    /\ vi_pc = "start"
    /\ vi_bytes' = varintEncode(vi_value)
    /\ vi_pc' = "encoded"
    /\ UNCHANGED <<vi_value, vi_result, rcVars, callVars, sockVars, statVars, rconVars>>

Decode ==
    /\ vi_pc = "encoded"
    /\ vi_result' = readVarInt(vi_bytes, 0)
    /\ vi_pc' = "decoded"
    /\ UNCHANGED <<vi_value, vi_bytes, rcVars, callVars, sockVars, statVars, rconVars>>

NextVarInt == Encode \/ Decode

SpecVarInt == InitVarInt /\ [][NextVarInt]_vars

----------------------------------------------------------------------------
(* C5 (refuted by the code): VarInt round trip.  For every unsigned 32-bit *)
(* integer v, readVarInt(varintEncode(v), 0) returns value = v and size =  *)
(* the number of bytes varintEncode produced.                              *)
TwoTo32 == <<Half, 0>>

IsUint32(n) == ~NumLT(n, Zero) /\ NumLT(n, TwoTo32)

C5_RoundTrip ==
    (vi_pc = "decoded" /\ IsUint32(vi_value)) =>
        /\ ~vi_result.thrown
        /\ vi_result.value = vi_value
        /\ vi_result.size = Len(vi_bytes)

(* C6 (refuted by the code): for every negative 32-bit integer value,      *)
(* varintEncode(value) = varintEncode(2^32 + value), and varintEncode(-1)  *)
(* is FF FF FF FF 0F.                                                      *)
C6_NegativeWraps ==
    (vi_pc = "encoded" /\ NumLT(vi_value, Zero)) =>
        /\ vi_bytes = varintEncode(NumAdd(TwoTo32, vi_value))
        /\ (vi_value = NumOfInt(-1) => vi_bytes = <<255, 255, 255, 255, 15>>)

----------------------------------------------------------------------------
(* Buffers and strings.  A Buffer is a sequence of bytes; a string is a    *)
(* sequence of code points below 2048 (one or two bytes of UTF-8).         *)

Take(s, n) == SubSeq(s, 1, n)
Drop(s, n) == SubSeq(s, n + 1, Len(s))

\* the length of the longest prefix of bytes (or code points) below 128
AsciiPrefix(seq) ==
    IF \A i \in 1..Len(seq) : seq[i] < 128 THEN Len(seq)
    ELSE (CHOOSE i \in 1..Len(seq) : seq[i] >= 128 /\ \A j \in 1..(i - 1) : seq[j] < 128) - 1

\* a run of ASCII is copied as it is, any other code point takes two bytes
RECURSIVE Utf8Encode(_)
Utf8Encode(str) ==
    IF str = <<>> THEN <<>>
    ELSE LET n == AsciiPrefix(str)
             c == Head(str)
         IN  IF n > 0 THEN Take(str, n) \o Utf8Encode(Drop(str, n))
             ELSE <<192 + (c \div 64), 128 + (c % 64)>> \o Utf8Encode(Tail(str))

IsContinuation(b) == b >= 128 /\ b < 192

\* Buffer.toString('utf8'): an ill-formed byte decodes to U+FFFD
RECURSIVE Utf8Decode(_)
Utf8Decode(bytes) ==
    IF bytes = <<>> THEN <<>>
    ELSE LET n == AsciiPrefix(bytes)
             b == Head(bytes)
         IN  IF n > 0 THEN Take(bytes, n) \o Utf8Decode(Drop(bytes, n))
             ELSE IF b >= 194 /\ b < 224 /\ Len(bytes) >= 2 /\ IsContinuation(bytes[2])
             THEN <<(b - 192) * 64 + (bytes[2] - 128)>> \o Utf8Decode(Drop(bytes, 2))
             ELSE <<65533>> \o Utf8Decode(Tail(bytes))

\* buf.toString('utf8', start, end): end is clamped, an empty range gives ''
BufToString(buf, start, end) ==
    LET e == IF end > Len(buf) THEN Len(buf) ELSE end
    IN  IF e <= start THEN <<>> ELSE Utf8Decode(SubSeq(buf, start + 1, e))

\* buf.writeInt32LE(v): the four bytes of v in two's complement
Int32LE(v) ==
    <<v % 256, (v \div 256) % 256, (v \div 65536) % 256, (v \div 16777216) % 256>>

\* buf.readInt32LE(off)
readInt32LE(buf, off) ==
    LET b3 == buf[off + 4]
    IN  buf[off + 1] + 256 * buf[off + 2] + 65536 * buf[off + 3]
        + 16777216 * (IF b3 >= 128 THEN b3 - 256 ELSE b3)

----------------------------------------------------------------------------
(* RCON packet codec                                                       *)

createRconPacket(type, id, payload) ==
    LET payloadBuffer == Utf8Encode(Append(payload, 0))
        length == 4 + 4 + Len(payloadBuffer)
    IN  Int32LE(length) \o Int32LE(id) \o Int32LE(type) \o payloadBuffer

parseRconPacket(buf) ==
    IF Len(buf) < 12
    THEN [thrown |-> TRUE, message |-> "Invalid RCON packet (too short)"]
    ELSE LET length == readInt32LE(buf, 0)
             id == readInt32LE(buf, 4)
             type == readInt32LE(buf, 8)
             payloadEnd == 4 + length - 2
         IN  IF Len(buf) < 4 + length
             THEN [thrown |-> TRUE, message |-> "Incomplete RCON packet"]
             ELSE [thrown |-> FALSE, length |-> length, id |-> id, type |-> type,
                   payload |-> BufToString(buf, 12, payloadEnd)]

----------------------------------------------------------------------------
(* The promise's resolve and reject, and the socket's methods              *)

Resolve(v) == [op |-> "resolve", val |-> v]
Reject(m)  == [op |-> "reject", err |-> m]

\* an Error that did not come from this module's own throw statements
SocketError == "SocketError"

KeyDebug == <<100, 101, 98, 117, 103>>    \* "debug"
KeyTimeout == <<116, 105, 109, 101, 111, 117, 116>>    \* "timeout"

CustomTimeoutMs == 15000

\* what a caller passes for debug: nothing, a boolean, or the options object
\* of the README's "Custom Timeout" example
DebugArgs ==
    {JUndefined, JBool(TRUE),
     JObj(<<<<KeyDebug, JBool(FALSE)>>, <<KeyTimeout, JNum(CustomTimeoutMs)>>>>)}

StatusTimeoutMs == 10000
RconTimeoutMs == 5000

\* the idle time after which the socket emits 'timeout', in ticks
TimeoutTicks == 2

\* socket.setTimeout: the timer counts the time without activity on the socket
Tick ==
    /\ sockState \in {"connecting", "open"} /\ ~peerEnded
    /\ idleTicks < TimeoutTicks
    /\ idleTicks' = idleTicks + 1
    /\ ev' = "tick"
    /\ UNCHANGED <<sockState, endCalled, peerEnded, destroys, written, calls, chunk, pending,
                   codecVars, callVars, statVars, rconVars>>

----------------------------------------------------------------------------
(* sendRconCommand                                                         *)
(*                                                                         *)
(* Events of the runtime's socket, for both sessions: the connect callback *)
(* runs once; 'data' events come while the socket is open and the peer has *)
(* not ended, also after socket.end(), which only closes the writing side; *)
(* 'timeout' and 'error' come while the socket is connecting or open; a    *)
(* destroyed socket emits nothing but 'close'; 'close' follows a destroy,  *)
(* an error, or the peer's 'end', and is the last event.                   *)

AuthId == 291       \* 0x123
CommandId == 1110   \* 0x456
Password == <<112, 119>>              \* "pw"
Command == <<108, 105, 115, 116>>     \* "list"

MaxPeerPackets == 3

\* what the peer may send: a packet as a server builds it, with one or two
\* NUL bytes after the payload
PeerPacket(id, type, payload, nuls) ==
    LET body == Utf8Encode(payload) \o [i \in 1..nuls |-> 0]
    IN  Int32LE(8 + Len(body)) \o Int32LE(id) \o Int32LE(type) \o body

PeerPayloads == {<<>>, <<111, 107>>, <<233>>}     \* "", "ok", U+00E9

\* a packet whose id is neither 0x123 nor 0x456
UnrelatedPacket == PeerPacket(7, 0, <<120>>, 2)

PeerPackets ==
    {PeerPacket(AuthId, 2, <<>>, 2), PeerPacket(-1, 2, <<>>, 2), UnrelatedPacket}
    \cup {PeerPacket(CommandId, 0, p, n) : p \in PeerPayloads, n \in {1, 2}}

InitRcon ==
    /\ sockState = "connecting" /\ endCalled = FALSE /\ peerEnded = FALSE /\ destroys = 0
    /\ written = <<>> /\ calls = <<>> /\ ev = "none" /\ chunk = <<>> /\ pending = <<>>
    /\ idleTicks = 0
    /\ authenticated = FALSE /\ responseData = <<>> /\ peerSent = 0
    /\ kind = "rcon" /\ debug \in DebugArgs /\ timeoutMs = RconTimeoutMs
    /\ ViIdle /\ RcIdle /\ StatIdle

\* a plausible slip: the command goes out with the auth packet
RconConnect_Pipelined ==
    /\ sockState = "connecting"
    /\ sockState' = "open"
    /\ written' = written \o <<createRconPacket(3, AuthId, Password),
                               createRconPacket(2, CommandId, Command)>>
    /\ ev' = "connect"
    /\ idleTicks' = 0
    /\ UNCHANGED <<endCalled, peerEnded, destroys, calls, chunk, pending, rconVars,
                   codecVars, callVars, statVars>>

\* socket.connect(port, host, () => { ... })
RconConnect ==
    /\ sockState = "connecting"
    /\ sockState' = "open"
    /\ written' = Append(written, createRconPacket(3, AuthId, Password))
    /\ ev' = "connect"
    /\ idleTicks' = 0
    /\ UNCHANGED <<endCalled, peerEnded, destroys, calls, chunk, pending, rconVars,
                   codecVars, callVars, statVars>>

\* a plausible slip: an empty result is taken for "no response yet"
RconCommandResponse_SkipEmpty(packetInfo) ==
    /\ responseData' = responseData \o packetInfo.payload
    /\ endCalled' = (responseData' # <<>>)
    /\ calls' = IF responseData' # <<>> THEN Append(calls, Resolve(responseData')) ELSE calls
    /\ UNCHANGED <<sockState, destroys, authenticated, written>>

\* the branch of the 'data' handler that takes the command response
RconCommandResponse(packetInfo) ==
    /\ responseData' = responseData \o packetInfo.payload
    /\ endCalled' = TRUE
    /\ calls' = Append(calls, Resolve(responseData'))
    /\ UNCHANGED <<sockState, destroys, authenticated, written>>

\* a plausible slip: once authenticated, every packet is taken for the answer
RconOnData_AnyIdAnswers(buf) ==
    LET packetInfo == parseRconPacket(buf)
    IN  IF packetInfo.thrown
        THEN /\ sockState' = "destroyed"
             /\ destroys' = destroys + 1
             /\ calls' = Append(calls, Reject(packetInfo.message))
             /\ UNCHANGED <<authenticated, responseData, written, endCalled>>
        ELSE IF ~authenticated
        THEN IF packetInfo.id = AuthId
             THEN /\ authenticated' = TRUE
                  /\ written' = Append(written, createRconPacket(2, CommandId, Command))
                  /\ UNCHANGED <<sockState, destroys, calls, responseData, endCalled>>
             ELSE UNCHANGED <<sockState, destroys, calls, authenticated, responseData,
                              written, endCalled>>
        ELSE RconCommandResponse(packetInfo)

\* socket.on('data', (data) => { ... }), the handler's effect on the session
RconOnData(buf) ==
    LET packetInfo == parseRconPacket(buf)
    IN  IF packetInfo.thrown
        THEN /\ sockState' = "destroyed"
             /\ destroys' = destroys + 1
             /\ calls' = Append(calls, Reject(packetInfo.message))
             /\ UNCHANGED <<authenticated, responseData, written, endCalled>>
        ELSE IF ~authenticated
        THEN IF packetInfo.id = AuthId
             THEN IF packetInfo.id # -1
                  THEN /\ authenticated' = TRUE
                       /\ written' = Append(written, createRconPacket(2, CommandId, Command))
                       /\ UNCHANGED <<sockState, destroys, calls, responseData, endCalled>>
                  ELSE /\ sockState' = "destroyed"
                       /\ destroys' = destroys + 1
                       /\ calls' = Append(calls,
                              Reject("RCON authentication failed - incorrect password"))
                       /\ UNCHANGED <<authenticated, responseData, written, endCalled>>
             ELSE UNCHANGED <<sockState, destroys, calls, authenticated, responseData,
                              written, endCalled>>
        ELSE IF packetInfo.id = CommandId
             THEN RconCommandResponse(packetInfo)
             ELSE UNCHANGED <<sockState, destroys, calls, authenticated, responseData,
                              written, endCalled>>

\* what the peer may send next: any packet for its first MaxPeerPackets
\* packets, and after those it may go on sending the unrelated one
PeerMaySend == IF peerSent < MaxPeerPackets THEN PeerPackets ELSE {UnrelatedPacket}

\* a 'data' event: the next bytes of the packet in flight, or the first
\* bytes of a packet the peer sends now
RconData ==
    /\ sockState = "open" /\ ~peerEnded
    /\ \E stream \in (IF pending # <<>> THEN {pending} ELSE PeerMaySend) :
       \E k \in 1..Len(stream) :
          /\ chunk' = Take(stream, k)
          /\ pending' = Drop(stream, k)
          /\ peerSent' = IF pending # <<>> \/ peerSent = MaxPeerPackets
                         THEN peerSent ELSE peerSent + 1
          /\ RconOnData(Take(stream, k))
    /\ ev' = "data"
    /\ idleTicks' = 0
    /\ UNCHANGED <<peerEnded, codecVars, callVars, statVars>>

\* socket.on('timeout', ...)
RconTimeout ==
    /\ sockState \in {"connecting", "open"} /\ ~peerEnded
    /\ idleTicks = TimeoutTicks
    /\ sockState' = "destroyed"
    /\ destroys' = destroys + 1
    /\ calls' = Append(calls, Reject("RCON connection timeout"))
    /\ ev' = "timeout"
    /\ UNCHANGED idleTicks
    /\ UNCHANGED <<endCalled, peerEnded, written, chunk, pending, rconVars, codecVars, callVars, statVars>>

\* socket.on('error', ...): the socket is destroyed by the runtime
RconError ==
    /\ sockState \in {"connecting", "open"} /\ ~peerEnded
    /\ sockState' = "destroyed"
    /\ calls' = Append(calls, Reject(SocketError))
    /\ ev' = "error"
    /\ UNCHANGED idleTicks
    /\ UNCHANGED <<endCalled, peerEnded, destroys, written, chunk, pending, rconVars,
                   codecVars, callVars, statVars>>

\* a plausible slip: the two messages change places
RconEnd_Swapped ==
    /\ sockState = "open" /\ ~peerEnded
    /\ peerEnded' = TRUE
    /\ pending' = <<>>
    /\ calls' = IF ~authenticated
                THEN Append(calls, Reject("RCON connection closed before receiving response"))
                ELSE IF responseData = <<>>
                THEN Append(calls, Reject("RCON connection closed before authentication"))
                ELSE calls
    /\ ev' = "end"
    /\ UNCHANGED idleTicks
    /\ UNCHANGED <<sockState, endCalled, destroys, written, chunk, rconVars, codecVars,
                   callVars, statVars>>

\* socket.on('end', ...): the peer has closed its side
RconEnd ==
    /\ sockState = "open" /\ ~peerEnded
    /\ peerEnded' = TRUE
    /\ pending' = <<>>
    /\ calls' = IF ~authenticated
                THEN Append(calls, Reject("RCON connection closed before authentication"))
                ELSE IF responseData = <<>>
                THEN Append(calls, Reject("RCON connection closed before receiving response"))
                ELSE calls
    /\ ev' = "end"
    /\ UNCHANGED idleTicks
    /\ UNCHANGED <<sockState, endCalled, destroys, written, chunk, rconVars, codecVars, callVars, statVars>>

\* socket.on('close', ...): after a destroy, or once the peer has ended
RconClose ==
    /\ sockState = "destroyed" \/ (sockState = "open" /\ peerEnded)
    /\ sockState' = "closed"
    /\ pending' = <<>>
    /\ ev' = "close"
    /\ UNCHANGED idleTicks
    /\ UNCHANGED <<endCalled, peerEnded, destroys, written, calls, chunk, rconVars,
                   codecVars, callVars, statVars>>

NextRcon ==
    \/ RconConnect
    \/ RconData
    \/ RconTimeout
    \/ RconError
    \/ RconEnd
    \/ RconClose
    \/ Tick

SpecRcon == InitRcon /\ [][NextRcon]_vars

----------------------------------------------------------------------------
(* Claims about sendRconCommand                                            *)

\* the buffer holds the 12-byte header and all 4 + length bytes of a packet
IsCompletePacket(buf) == Len(buf) >= 12 /\ Len(buf) >= 4 + readInt32LE(buf, 0)

\* the buffer holds the header but fewer than 4 + length bytes
IsIncompletePacket(buf) == Len(buf) >= 12 /\ Len(buf) < 4 + readInt32LE(buf, 0)

PacketId(buf) == readInt32LE(buf, 4)

AuthenticationFailed == Reject("RCON authentication failed - incorrect password")

IsCommandPacket(buf) == Len(buf) >= 12 /\ readInt32LE(buf, 8) = 2

(* C1 (refuted by the code): while the session awaits authentication, a    *)
(* complete packet with request id -1 makes it fail with                   *)
(* AuthenticationFailed, and no command packet (type 2) is written in that *)
(* session afterwards.                                                     *)
C1_AuthFailureRejects ==
    [][ /\ (ev' = "data" /\ ~authenticated /\ calls = <<>>
              /\ IsCompletePacket(chunk') /\ PacketId(chunk') = -1)
            => (calls' = <<AuthenticationFailed>>
                /\ \A i \in 1..Len(written') : ~IsCommandPacket(written'[i]))
        /\ (calls # <<>> /\ calls[1] = AuthenticationFailed) => written' = written
      ]_vars

(* C2 (refuted by the code): an incomplete packet (header present, fewer   *)
(* than 4 + length bytes) leaves the session waiting: no failure reaches   *)
(* the caller, the socket is not closed, the session state is kept.        *)
C2_IncompleteWaits ==
    [][ (ev' = "data" /\ calls = <<>> /\ IsIncompletePacket(chunk'))
            => (calls' = <<>> /\ sockState' = "open" /\ destroys' = destroys
                /\ ~endCalled' /\ authenticated' = authenticated)
      ]_vars

(* C4 (refuted by the code): resolve and reject are invoked at most once   *)
(* in total in an RCON session, whatever the sequence of socket events.    *)
C4_RconCompletesOnce == Len(calls) <= 1

(* C10: RCON success path.  While the session awaits authentication, a     *)
(* complete packet with id 0x123 authenticates it and the command packet   *)
(* is written; then a complete packet with id 0x456 whose decoded payload  *)
(* is P resolves the session with exactly P (the empty string included)    *)
(* and socket.end() is called.                                             *)
C10_RconSuccessPath ==
    [][ /\ (ev' = "data" /\ calls = <<>> /\ ~authenticated
              /\ IsCompletePacket(chunk') /\ PacketId(chunk') = AuthId)
            => (authenticated' /\ calls' = <<>>
                /\ written' = Append(written, createRconPacket(2, CommandId, Command)))
        /\ (ev' = "data" /\ calls = <<>> /\ authenticated
              /\ IsCompletePacket(chunk') /\ PacketId(chunk') = CommandId)
            => (calls' = <<Resolve(parseRconPacket(chunk').payload)>> /\ endCalled')
      ]_vars

\* the session has resolved with the empty string after both answers
C10_Witness ==
    /\ ev = "data" /\ authenticated /\ endCalled
    /\ chunk = PeerPacket(CommandId, 0, <<>>, 2)
    /\ Len(written) = 2
    /\ calls = <<Resolve(<<>>)>>

(* C15: in the RCON session, when the peer ends the connection before the *)
(* session has made any call, the 'end' handler rejects with 'RCON         *)
(* connection closed before authentication' if authentication has not      *)
(* succeeded, and with 'RCON connection closed before receiving response'  *)
(* if it has; neither case gets the other's error.                         *)
C15_EndBeforeAuthOrResponse ==
    [][(ev' = "end" /\ calls = <<>>) =>
          calls' = <<Reject(IF authenticated
                            THEN "RCON connection closed before receiving response"
                            ELSE "RCON connection closed before authentication")>>
      ]_vars

\* the peer ended after the command went out and before it answered
C15_Witness ==
    /\ ev = "end" /\ authenticated /\ responseData = <<>>
    /\ Len(written) = 2
    /\ calls = <<Reject("RCON connection closed before receiving response")>>

AuthPacket == createRconPacket(3, AuthId, Password)
CommandPacket == createRconPacket(2, CommandId, Command)

(* C18: the RCON session has at most one request outstanding.  The connect *)
(* callback writes the auth packet (type 3, id 0x123) and nothing else;    *)
(* the only other write of a session is the command packet (type 2, id     *)
(* 0x456), made by a 'data' handler that has received a complete packet    *)
(* with id 0x123 while only the auth packet had been written; so neither   *)
(* packet is written twice, whatever the peer sends.                       *)
C18_OneRequestOutstanding ==
    /\ [][/\ ev' = "connect" => (written = <<>> /\ written' = <<AuthPacket>>)
          /\ (ev' # "connect" /\ written' # written) =>
                /\ ev' = "data"
                /\ IsCompletePacket(chunk') /\ PacketId(chunk') = AuthId
                /\ written = <<AuthPacket>>
                /\ written' = <<AuthPacket, CommandPacket>>
         ]_vars
    /\ [](written \in {<<>>, <<AuthPacket>>, <<AuthPacket, CommandPacket>>})

\* the command is out, and the peer has sent its last packet without
\* answering it: further packets trigger no further write
C18_Witness ==
    /\ ev = "data" /\ authenticated /\ calls = <<>>
    /\ peerSent = MaxPeerPackets /\ pending = <<>>
    /\ written = <<AuthPacket, CommandPacket>>

\* the request id the session is waiting for
ExpectedId == IF authenticated THEN CommandId ELSE AuthId

----------------------------------------------------------------------------
(* RCON packet codec harness: a packet is built from (type, id, payload),  *)
(* by createRconPacket or by a peer that ends it with two NULs, and then   *)
(* handed to parseRconPacket.                                              *)

RcTypes == {0, 2, 3}
RcIds == {-1, 0, 7, AuthId, CommandId}
\* "", "o", "ok", U+00E9, "list"
RcPayloads == {<<>>, <<111>>, <<111, 107>>, <<233>>, Command}

InitRconCodec ==
    /\ rc_type \in RcTypes /\ rc_id \in RcIds /\ rc_payload \in RcPayloads
    /\ rc_packet = <<>>
    /\ rc_result = [thrown |-> TRUE, message |-> ""]
    /\ rc_pc = "start"
    /\ ViIdle /\ CallIdle /\ SockIdle /\ StatIdle /\ RconIdle

RcCreate ==
    /\ rc_pc = "start"
    /\ rc_packet' = createRconPacket(rc_type, rc_id, rc_payload)
    /\ rc_pc' = "created"
    /\ UNCHANGED <<rc_type, rc_id, rc_payload, rc_result, viVars, callVars, sockVars,
                   statVars, rconVars>>

\* the same packet as a peer builds it, with two NUL bytes after the payload
RcPeerCreate ==
    /\ rc_pc = "start"
    /\ rc_packet' = PeerPacket(rc_id, rc_type, rc_payload, 2)
    /\ rc_pc' = "received"
    /\ UNCHANGED <<rc_type, rc_id, rc_payload, rc_result, viVars, callVars, sockVars,
                   statVars, rconVars>>

RcParse ==
    /\ rc_pc \in {"created", "received"}
    /\ rc_result' = parseRconPacket(rc_packet)
    /\ rc_pc' = IF rc_pc = "created" THEN "parsed" ELSE "peerParsed"
    /\ UNCHANGED <<rc_type, rc_id, rc_payload, rc_packet, viVars, callVars, sockVars,
                   statVars, rconVars>>

NextRconCodec == RcCreate \/ RcPeerCreate \/ RcParse

SpecRconCodec == InitRconCodec /\ [][NextRconCodec]_vars

(* C11 (refuted by the code): RCON packet round trip.  For every type, id  *)
(* and payload string p, parseRconPacket(createRconPacket(type, id, p))    *)
(* returns the same id, the same type and payload = p, and so does         *)
(* decoding the same packet built with two trailing NUL bytes.             *)
C11_PayloadRoundTrip ==
    rc_pc \in {"parsed", "peerParsed"} =>
        /\ ~rc_result.thrown
        /\ rc_result.id = rc_id
        /\ rc_result.type = rc_type
        /\ rc_result.payload = rc_payload

\* the two-NUL half of the round trip, without the packets of createRconPacket
C11_PeerRoundTrip ==
    rc_pc = "peerParsed" =>
        /\ ~rc_result.thrown
        /\ rc_result.id = rc_id
        /\ rc_result.type = rc_type
        /\ rc_result.payload = rc_payload

----------------------------------------------------------------------------
(* JSON.parse and property access.  The parser takes JSON text without    *)
(* white space, escapes, signs, fractions or exponents; every other text   *)
(* is rejected.                                                            *)

HasMembers(v) == v.t \in {"obj", "arr"}

RECURSIVE Lookup(_, _)
Lookup(m, key) ==
    IF m = <<>> THEN JUndefined
    ELSE IF m[Len(m)][1] = key THEN m[Len(m)][2]
    ELSE Lookup(Take(m, Len(m) - 1), key)

\* v[key] of a value that is neither null nor undefined
Get(v, key) == IF HasMembers(v) THEN Lookup(v.m, key) ELSE JUndefined

HasKey(m, key) == \E i \in 1..Len(m) : m[i][1] = key

PutMember(m, key, val) ==
    IF HasKey(m, key)
    THEN [i \in 1..Len(m) |-> IF m[i][1] = key THEN <<key, val>> ELSE m[i]]
    ELSE Append(m, <<key, val>>)

\* v[key] = val of an object or array
Set(v, key, val) == [v EXCEPT !.m = PutMember(v.m, key, val)]

ParseFail == [ok |-> FALSE]

At(str, i) == IF i >= 1 /\ i <= Len(str) THEN str[i] ELSE -1

IsDigit(c) == c >= 48 /\ c <= 57

Matches(str, i, word) ==
    /\ i + Len(word) - 1 <= Len(str)
    /\ SubSeq(str, i, i + Len(word) - 1) = word

RECURSIVE ParseDigits(_, _, _)
ParseDigits(str, i, acc) ==
    IF IsDigit(At(str, i)) THEN ParseDigits(str, i + 1, 10 * acc + (str[i] - 48))
    ELSE [ok |-> TRUE, v |-> JNum(acc), i |-> i]

\* the characters of a string literal after its opening quote
RECURSIVE ParseChars(_, _, _)
ParseChars(str, i, acc) ==
    LET c == At(str, i)
    IN  IF c = 34 THEN [ok |-> TRUE, v |-> JStr(acc), i |-> i + 1]
        ELSE IF c < 32 \/ c = 92 THEN ParseFail
        ELSE ParseChars(str, i + 1, Append(acc, c))

RECURSIVE ParseValue(_, _)
RECURSIVE ParseMembers(_, _, _)
RECURSIVE ParseElements(_, _, _)

ParseValue(str, i) ==
    LET c == At(str, i)
    IN  IF c = 123
        THEN IF At(str, i + 1) = 125 THEN [ok |-> TRUE, v |-> JObj(<<>>), i |-> i + 2]
             ELSE ParseMembers(str, i + 1, <<>>)
        ELSE IF c = 91
        THEN IF At(str, i + 1) = 93 THEN [ok |-> TRUE, v |-> JArr(<<>>), i |-> i + 2]
             ELSE ParseElements(str, i + 1, <<>>)
        ELSE IF c = 34 THEN ParseChars(str, i + 1, <<>>)
        ELSE IF c = 48 THEN
             IF IsDigit(At(str, i + 1)) THEN ParseFail
             ELSE [ok |-> TRUE, v |-> JNum(0), i |-> i + 1]
        ELSE IF IsDigit(c) THEN ParseDigits(str, i, 0)
        ELSE IF Matches(str, i, <<110, 117, 108, 108>>)
        THEN [ok |-> TRUE, v |-> JNull, i |-> i + 4]
        ELSE IF Matches(str, i, <<116, 114, 117, 101>>)
        THEN [ok |-> TRUE, v |-> JBool(TRUE), i |-> i + 4]
        ELSE IF Matches(str, i, <<102, 97, 108, 115, 101>>)
        THEN [ok |-> TRUE, v |-> JBool(FALSE), i |-> i + 5]
        ELSE ParseFail

\* "key":value , ... }
ParseMembers(str, i, acc) ==
    IF At(str, i) # 34 THEN ParseFail
    ELSE LET k == ParseChars(str, i + 1, <<>>)
         IN  IF ~k.ok \/ At(str, k.i) # 58 THEN ParseFail
             ELSE LET e == ParseValue(str, k.i + 1)
                  IN  IF ~e.ok THEN ParseFail
                      ELSE LET m == PutMember(acc, k.v.s, e.v)
                           IN  IF At(str, e.i) = 44 THEN ParseMembers(str, e.i + 1, m)
                               ELSE IF At(str, e.i) = 125
                               THEN [ok |-> TRUE, v |-> JObj(m), i |-> e.i + 1]
                               ELSE ParseFail

\* value , ... ]
ParseElements(str, i, acc) ==
    LET e == ParseValue(str, i)
    IN  IF ~e.ok THEN ParseFail
        ELSE IF At(str, e.i) = 44 THEN ParseElements(str, e.i + 1, Append(acc, e.v))
        ELSE IF At(str, e.i) = 93
        THEN [ok |-> TRUE, v |-> JArr(Append(acc, e.v)), i |-> e.i + 1]
        ELSE ParseFail

\* JSON.parse(text): the value, or a SyntaxError
JSONParse(text) ==
    LET r == ParseValue(text, 1)
    IN  IF r.ok /\ r.i = Len(text) + 1 THEN [thrown |-> FALSE, value |-> r.v]
        ELSE [thrown |-> TRUE, message |-> "SyntaxError"]

----------------------------------------------------------------------------
(* Status packet framer                                                    *)

Host == <<109, 99>>     \* "mc"
Port == 25565

createHandshakePacket(host, port) ==
    LET protocolVersion == NumOfInt(-1)
        protocolVersionBuffer == varintEncode(protocolVersion)
        hostLengthBuffer == varintEncode(NumOfInt(Len(host)))
        hostBuffer == Utf8Encode(host)
        portBuffer == <<(port \div 256) % 256, port % 256>>
        nextStateBuffer == varintEncode(NumOfInt(1))
        packetBody == <<0>> \o protocolVersionBuffer \o hostLengthBuffer \o hostBuffer
                      \o portBuffer \o nextStateBuffer
    IN  varintEncode(NumOfInt(Len(packetBody))) \o packetBody

createStatusRequestPacket ==
    LET packetId == <<0>>
    IN  varintEncode(NumOfInt(Len(packetId))) \o packetId

\* the part of parseStatusResponse after the packet id has been accepted
ParseStatusJson(buf, offset) ==
    LET jsonLengthResult == readVarInt(buf, offset)
    IN  IF jsonLengthResult.thrown THEN jsonLengthResult
        ELSE
        LET jsonLength == jsonLengthResult.value
            off == offset + jsonLengthResult.size
        IN  IF NumLT(NumOfInt(Len(buf)), NumAdd(NumOfInt(off), jsonLength))
            THEN [thrown |-> TRUE, message |-> "Incomplete data"]
            ELSE
            LET jsonStr == IF NumLT(jsonLength, Zero) THEN <<>>
                           ELSE BufToString(buf, off, off + NumToInt(jsonLength))
                response == JSONParse(jsonStr)
            IN  IF response.thrown
                THEN [thrown |-> TRUE, message |-> "Failed to parse server response"]
                ELSE response

\* a plausible slip: the packet id is read and not tested
parseStatusResponse_NoIdCheck(buf) ==
    LET packetLengthResult == readVarInt(buf, 0)
    IN  IF packetLengthResult.thrown THEN packetLengthResult
        ELSE
        LET packetLength == packetLengthResult.value
            offset == packetLengthResult.size
        IN  IF NumLT(NumOfInt(Len(buf)), NumAdd(NumOfInt(offset), packetLength))
            THEN [thrown |-> TRUE, message |-> "Incomplete data"]
            ELSE
            LET packetIdResult == readVarInt(buf, offset)
            IN  IF packetIdResult.thrown THEN packetIdResult
                ELSE ParseStatusJson(buf, offset + packetIdResult.size)

parseStatusResponse(buf) ==
    LET packetLengthResult == readVarInt(buf, 0)
    IN  IF packetLengthResult.thrown THEN packetLengthResult
        ELSE
        LET packetLength == packetLengthResult.value
            offset == packetLengthResult.size
        IN  IF NumLT(NumOfInt(Len(buf)), NumAdd(NumOfInt(offset), packetLength))
            THEN [thrown |-> TRUE, message |-> "Incomplete data"]
            ELSE
            LET packetIdResult == readVarInt(buf, offset)
            IN  IF packetIdResult.thrown THEN packetIdResult
                ELSE IF packetIdResult.value # Zero
                THEN [thrown |-> TRUE, message |-> "Unexpected packet ID"]
                ELSE ParseStatusJson(buf, offset + packetIdResult.size)

----------------------------------------------------------------------------
(* getMinecraftServerStatus                                                *)

KeyOnline == <<111, 110, 108, 105, 110, 101>>    \* "online"
KeyPlayers == <<112, 108, 97, 121, 101, 114, 115>>    \* "players"
KeySample == <<115, 97, 109, 112, 108, 101>>    \* "sample"
KeyName == <<110, 97, 109, 101>>    \* "name"
KeyNicknames == <<110, 105, 99, 107, 110, 97, 109, 101, 115>>    \* "nicknames"
CommaSpace == <<44, 32>>    \* ", "

RECURSIVE DecimalDigits(_)
DecimalDigits(n) ==
    IF n < 10 THEN <<48 + n>> ELSE Append(DecimalDigits(n \div 10), 48 + (n % 10))

RECURSIVE JoinWith(_, _)
RECURSIVE ToJsString(_)

\* Array.prototype.join: null and undefined elements give the empty string
JoinWith(a, sep) ==
    IF a = <<>> THEN <<>>
    ELSE LET first == IF a[1].t \in {"undefined", "null"} THEN <<>> ELSE ToJsString(a[1])
         IN  IF Len(a) = 1 THEN first ELSE first \o sep \o JoinWith(Tail(a), sep)

\* String(v)
ToJsString(v) ==
    CASE v.t = "str" -> v.s
      [] v.t = "num" -> DecimalDigits(v.n)
      [] v.t = "bool" -> IF v.b THEN <<116, 114, 117, 101>> ELSE <<102, 97, 108, 115, 101>>
      [] v.t = "null" -> <<110, 117, 108, 108>>
      [] v.t = "arr" -> JoinWith(v.a, <<44>>)
      [] v.t = "obj" -> <<91, 111, 98, 106, 101, 99, 116, 32, 79, 98, 106, 101, 99, 116, 93>>
      [] OTHER -> <<117, 110, 100, 101, 102, 105, 110, 101, 100>>

\* x && x > 0 for the values players.online takes in the modelled responses
\* (numbers, booleans, null, undefined)
TruthyAndPositive(v) ==
    CASE v.t = "num" -> v.n > 0
      [] v.t = "bool" -> v.b
      [] OTHER -> FALSE

TypeError == [thrown |-> TRUE, message |-> "TypeError"]

\* a slip in the separator
Nicknames_NoSpace(names) == JoinWith(names, <<44>>)

\* names.join(", ")
Nicknames(names) == JoinWith(names, CommaSpace)

\* result.players.sample.map(player => player.name).join(", ")
SampleNicknames(players) ==
    LET sample == Get(players, KeySample)
    IN  IF sample.t # "arr" THEN TypeError
        ELSE IF \E i \in 1..Len(sample.a) : sample.a[i].t \in {"undefined", "null"}
        THEN TypeError
        ELSE [thrown |-> FALSE,
              value |-> JStr(Nicknames([i \in 1..Len(sample.a) |-> Get(sample.a[i], KeyName)]))]

\* lines 60-63 of the 'data' handler: the module is an ES module (strict
\* mode), so setting a property of a primitive throws
Augment(parsed) ==
    IF ~HasMembers(parsed) THEN TypeError
    ELSE
    LET result == Set(parsed, KeyOnline, JBool(TRUE))
        players == Get(result, KeyPlayers)
    IN  IF players.t \in {"undefined", "null"} THEN [thrown |-> FALSE, value |-> result]
        ELSE IF ~TruthyAndPositive(Get(players, KeyOnline))
        THEN [thrown |-> FALSE, value |-> result]
        ELSE LET nick == SampleNicknames(players)
             IN  IF nick.thrown THEN nick
                 ELSE [thrown |-> FALSE,
                       value |-> Set(result, KeyPlayers,
                                     Set(players, KeyNicknames, nick.value))]

\* data = Buffer.concat([data, chunk]) written without the old bytes
Concat_Drop(buf, c) == c

\* Buffer.concat([data, chunk])
Concat(buf, c) == buf \o c

\* a plausible slip: every error of the parser is fatal
StatusOnData_IncompleteFatal(buf) ==
    LET parsed == parseStatusResponse(buf)
    IN  IF parsed.thrown
        THEN [calls |-> <<Reject(parsed.message)>>, received |-> FALSE, end |-> TRUE]
        ELSE LET result == Augment(parsed.value)
             IN  IF result.thrown
                 THEN [calls |-> <<Reject(result.message)>>, received |-> TRUE, end |-> TRUE]
                 ELSE [calls |-> <<Resolve(result.value)>>, received |-> TRUE, end |-> TRUE]

\* the try / catch of the 'data' handler on the accumulated bytes: the
\* completion calls it makes, and whether it ran hasReceivedResponse = true
\* and socket.end()
StatusOnData(buf) ==
    LET parsed == parseStatusResponse(buf)
    IN  IF parsed.thrown
        THEN IF parsed.message = "Incomplete data"
             THEN [calls |-> <<>>, received |-> FALSE, end |-> FALSE]
             ELSE [calls |-> <<Reject(parsed.message)>>, received |-> FALSE, end |-> TRUE]
        ELSE LET result == Augment(parsed.value)
             IN  IF result.thrown
                 THEN [calls |-> <<Reject(result.message)>>, received |-> TRUE, end |-> TRUE]
                 ELSE [calls |-> <<Resolve(result.value)>>, received |-> TRUE, end |-> TRUE]

\* a status response as a server frames it
StatusFrame(packetId, text) ==
    LET body == Utf8Encode(text)
        inner == varintEncode(NumOfInt(packetId)) \o varintEncode(NumOfInt(Len(body))) \o body
    IN  varintEncode(NumOfInt(Len(inner))) \o inner

\* {"players":{"max":20,"online":0}}
TextIdle ==
    <<123, 34, 112, 108, 97, 121, 101, 114, 115, 34, 58, 123, 34, 109, 97, 120, 34, 58, 50, 48, 44, 34, 111, 110, 108, 105, 110, 101, 34, 58, 48, 125, 125>>

\* {"version":{"name":"1.20.4","protocol":765},"players":{"max":20,"online":2,"sample":[{"name":"Alice"},{"name":"Bob"}]},"description":"A Minecraft Server"}
TextBusy ==
    <<123, 34, 118, 101, 114, 115, 105, 111, 110, 34, 58, 123, 34, 110, 97, 109, 101, 34, 58, 34, 49, 46, 50, 48, 46, 52, 34, 44, 34, 112, 114, 111, 116, 111, 99, 111, 108, 34, 58, 55, 54, 53, 125, 44, 34, 112, 108, 97, 121, 101, 114, 115, 34, 58, 123, 34, 109, 97, 120, 34, 58, 50, 48, 44, 34, 111, 110, 108, 105, 110, 101, 34, 58, 50, 44, 34, 115, 97, 109, 112, 108, 101, 34, 58, 91, 123, 34, 110, 97, 109, 101, 34, 58, 34, 65, 108, 105, 99, 101, 34, 125, 44, 123, 34, 110, 97, 109, 101, 34, 58, 34, 66, 111, 98, 34, 125, 93, 125, 44, 34, 100, 101, 115, 99, 114, 105, 112, 116, 105, 111, 110, 34, 58, 34, 65, 32, 77, 105, 110, 101, 99, 114, 97, 102, 116, 32, 83, 101, 114, 118, 101, 114, 34, 125>>

\* {"players":{"max":20,"online":1}}
TextNoSample ==
    <<123, 34, 112, 108, 97, 121, 101, 114, 115, 34, 58, 123, 34, 109, 97, 120, 34, 58, 50, 48, 44, 34, 111, 110, 108, 105, 110, 101, 34, 58, 49, 125, 125>>

\* {"online":false,"players":{"online":0},"description":"x"}
TextOffline ==
    <<123, 34, 111, 110, 108, 105, 110, 101, 34, 58, 102, 97, 108, 115, 101, 44, 34, 112, 108, 97, 121, 101, 114, 115, 34, 58, 123, 34, 111, 110, 108, 105, 110, 101, 34, 58, 48, 125, 44, 34, 100, 101, 115, 99, 114, 105, 112, 116, 105, 111, 110, 34, 58, 34, 120, 34, 125>>

\* {}
TextEmpty ==
    <<123, 125>>

\* null
TextNull ==
    <<110, 117, 108, 108>>

\* []
TextArray ==
    <<91, 93>>

\* {"players"
TextBroken ==
    <<123, 34, 112, 108, 97, 121, 101, 114, 115, 34>>

\* texts that are JSON
JsonTexts == {TextIdle, TextBusy, TextNoSample, TextOffline, TextEmpty, TextNull,
              TextArray}

\* complete responses with packet id 0 and a JSON payload
JsonResponses == {StatusFrame(0, t) : t \in JsonTexts}

\* a response whose outer length covers the packet id and the JSON length
\* only, not the JSON bytes that follow
ShortLengthFrame(text) ==
    LET body == Utf8Encode(text)
        head == varintEncode(Zero) \o varintEncode(NumOfInt(Len(body)))
    IN  varintEncode(NumOfInt(Len(head))) \o head \o body

\* a packet that holds a packet id and nothing else
BareFrame(packetId) ==
    LET inner == varintEncode(NumOfInt(packetId))
    IN  varintEncode(NumOfInt(Len(inner))) \o inner

\* complete packets whose id is not 0: a 1-byte and a 2-byte id, followed by
\* a well-formed status JSON, by text that is no JSON, or by nothing
NonZeroIdResponses ==
    {StatusFrame(1, TextIdle), StatusFrame(300, TextBroken), BareFrame(1)}

StatusResponses ==
    JsonResponses \cup NonZeroIdResponses
    \cup {StatusFrame(0, TextBroken), ShortLengthFrame(TextIdle)}

MaxChunk == 3

\* a 'data' event brings up to MaxChunk of the bytes in flight, or all of them
ChunkSizes(stream) == {k \in 1..Len(stream) : k <= MaxChunk \/ k = Len(stream)}

InitStatus ==
    /\ resp \in StatusResponses
    /\ pending = resp
    /\ sockState = "connecting" /\ endCalled = FALSE /\ peerEnded = FALSE /\ destroys = 0
    /\ written = <<>> /\ calls = <<>> /\ ev = "none" /\ chunk = <<>>
    /\ idleTicks = 0
    /\ data = <<>> /\ hasReceivedResponse = FALSE
    /\ kind = "status" /\ debug \in DebugArgs /\ timeoutMs = StatusTimeoutMs
    /\ ViIdle /\ RcIdle /\ RconIdle

\* a plausible slip: the status request goes out before the handshake
StatusConnect_Swapped ==
    /\ sockState = "connecting"
    /\ sockState' = "open"
    /\ written' = written \o <<createStatusRequestPacket, createHandshakePacket(Host, Port)>>
    /\ ev' = "connect"
    /\ idleTicks' = 0
    /\ UNCHANGED <<endCalled, peerEnded, destroys, calls, chunk, pending, statVars,
                   codecVars, callVars, rconVars>>

\* socket.connect(port, host, () => { ... }): building the two packets from a
\* host string and a port number does not throw, so the catch is not taken
StatusConnect ==
    /\ sockState = "connecting"
    /\ sockState' = "open"
    /\ written' = written \o <<createHandshakePacket(Host, Port), createStatusRequestPacket>>
    /\ ev' = "connect"
    /\ idleTicks' = 0
    /\ UNCHANGED <<endCalled, peerEnded, destroys, calls, chunk, pending, statVars,
                   codecVars, callVars, rconVars>>

\* socket.on('data', (chunk) => { ... })
StatusData ==
    /\ sockState = "open" /\ ~peerEnded /\ pending # <<>>
    /\ \E k \in ChunkSizes(pending) :
          /\ chunk' = Take(pending, k)
          /\ pending' = Drop(pending, k)
    /\ data' = Concat(data, chunk')
    /\ LET r == StatusOnData(data')
       IN  /\ hasReceivedResponse' = (hasReceivedResponse \/ r.received)
           /\ endCalled' = (endCalled \/ r.end)
           /\ calls' = calls \o r.calls
    /\ ev' = "data"
    /\ idleTicks' = 0
    /\ UNCHANGED <<sockState, peerEnded, destroys, written, resp, codecVars, callVars, rconVars>>

\* a plausible slip: the handler rejects and leaves the socket as it is
StatusTimeout_NoDestroy ==
    /\ sockState \in {"connecting", "open"} /\ ~peerEnded
    /\ idleTicks = TimeoutTicks
    /\ calls' = Append(calls, Reject("Connection timeout"))
    /\ ev' = "timeout"
    /\ UNCHANGED idleTicks
    /\ UNCHANGED <<sockState, destroys, endCalled, peerEnded, written, chunk, pending,
                   statVars, codecVars, callVars, rconVars>>

\* socket.on('timeout', ...)
StatusTimeout ==
    /\ sockState \in {"connecting", "open"} /\ ~peerEnded
    /\ idleTicks = TimeoutTicks
    /\ sockState' = "destroyed"
    /\ destroys' = destroys + 1
    /\ calls' = Append(calls, Reject("Connection timeout"))
    /\ ev' = "timeout"
    /\ UNCHANGED idleTicks
    /\ UNCHANGED <<endCalled, peerEnded, written, chunk, pending, statVars, codecVars, callVars, rconVars>>

\* socket.on('error', ...): the socket is destroyed by the runtime
StatusError ==
    /\ sockState \in {"connecting", "open"} /\ ~peerEnded
    /\ sockState' = "destroyed"
    /\ calls' = Append(calls, Reject(SocketError))
    /\ ev' = "error"
    /\ UNCHANGED idleTicks
    /\ UNCHANGED <<endCalled, peerEnded, destroys, written, chunk, pending, statVars,
                   codecVars, callVars, rconVars>>

\* a plausible slip: the handlers do not look at hasReceivedResponse
ClosedWithoutResponse_Always ==
    Append(calls, Reject("Connection closed without valid response"))

\* the body the 'end' and 'close' handlers share
ClosedWithoutResponse ==
    IF ~hasReceivedResponse
    THEN Append(calls, Reject("Connection closed without valid response"))
    ELSE calls

\* socket.on('end', ...): the peer has closed its side
StatusEnd ==
    /\ sockState = "open" /\ ~peerEnded
    /\ peerEnded' = TRUE
    /\ pending' = <<>>
    /\ calls' = ClosedWithoutResponse
    /\ ev' = "end"
    /\ UNCHANGED idleTicks
    /\ UNCHANGED <<sockState, endCalled, destroys, written, chunk, statVars, codecVars, callVars, rconVars>>

\* socket.on('close', ...): after a destroy, or once the peer has ended
StatusClose ==
    /\ sockState = "destroyed" \/ (sockState = "open" /\ peerEnded)
    /\ sockState' = "closed"
    /\ pending' = <<>>
    /\ calls' = ClosedWithoutResponse
    /\ ev' = "close"
    /\ UNCHANGED idleTicks
    /\ UNCHANGED <<endCalled, peerEnded, destroys, written, chunk, statVars, codecVars, callVars, rconVars>>

NextStatus ==
    \/ StatusConnect
    \/ StatusData
    \/ StatusTimeout
    \/ StatusError
    \/ StatusEnd
    \/ StatusClose
    \/ Tick

SpecStatus == InitStatus /\ [][NextStatus]_vars

----------------------------------------------------------------------------
(* Claims about getMinecraftServerStatus                                   *)

\* only the connect callback and 'data' handlers have run so far
OnlyConnectAndData == sockState = "open" /\ ~peerEnded

(* C3 (refuted by the code): in a status session resolve and reject are    *)
(* invoked at most once in total, whatever the sequence of socket events.  *)
C3_StatusCompletesOnce == Len(calls) <= 1

(* C7: partial-packet reassembly.  For a complete response with packet id  *)
(* 0 and a JSON payload, however its bytes are split into 'data' chunks,   *)
(* the session makes no completion call (and does not end the socket)      *)
(* before the last chunk, and after the last chunk it has made exactly the *)
(* call that the whole response arriving in a single chunk produces.       *)
C7_Reassembly ==
    (OnlyConnectAndData /\ resp \in JsonResponses) =>
        /\ data \o pending = resp
        /\ IF pending # <<>>
           THEN calls = <<>> /\ ~hasReceivedResponse /\ ~endCalled
           ELSE /\ calls = StatusOnData(resp).calls
                /\ Len(calls) = 1
                /\ hasReceivedResponse /\ endCalled

\* the long response has arrived in chunks, the last of them a single byte,
\* and the session has resolved
C7_Witness ==
    /\ OnlyConnectAndData /\ resp = StatusFrame(0, TextBusy)
    /\ pending = <<>> /\ Len(chunk) = 1 /\ data = resp
    /\ Len(calls) = 1 /\ calls[1].op = "resolve"

DocumentedStatusFailures ==
    {"Connection timeout", SocketError, "Unexpected packet ID", "VarInt too big",
     "Failed to parse server response", "Connection closed without valid response"}

(* C8 (refuted by the code): a status session fails only with a documented *)
(* failure kind, and a complete response with packet id 0 whose payload is *)
(* valid JSON resolves the session.                                        *)
C8_OnlyDocumentedFailures ==
    /\ \A i \in 1..Len(calls) :
          calls[i].op = "reject" => calls[i].err \in DocumentedStatusFailures
    /\ (OnlyConnectAndData /\ resp \in JsonResponses /\ pending = <<>>)
          => (calls # <<>> /\ calls[1].op = "resolve")

\* the decoded JSON of the response, before the session touches it
DecodedJson == parseStatusResponse(resp).value

\* a value without its online member and without its players.nicknames
StripDerived(v) ==
    LET m1 == SelectSeq(v.m, LAMBDA kv : kv[1] # KeyOnline)
    IN  [v EXCEPT !.m =
           [i \in 1..Len(m1) |->
              IF m1[i][1] = KeyPlayers /\ HasMembers(m1[i][2])
              THEN <<KeyPlayers,
                     [m1[i][2] EXCEPT !.m = SelectSeq(@, LAMBDA kv : kv[1] # KeyNicknames)]>>
              ELSE m1[i]]]

\* the names of a sample, each followed by ", " except the last
RECURSIVE NamesInOrder(_)
NamesInOrder(sample) ==
    IF sample = <<>> THEN <<>>
    ELSE Get(sample[1], KeyName).s
         \o (IF Len(sample) = 1 THEN <<>> ELSE <<44, 32>> \o NamesInOrder(Tail(sample)))

PlayersOnline(v) == Get(Get(v, KeyPlayers), KeyOnline)

(* C9: status augmentation.  Every resolved result has online = true; when *)
(* players.online > 0 its players.nicknames is the names of players.sample *)
(* joined in order with ", "; when players.online is 0 it has no           *)
(* players.nicknames; every other field is the decoded JSON unchanged.     *)
C9_Augmentation ==
    \A i \in 1..Len(calls) :
       calls[i].op = "resolve" =>
          LET result == calls[i].val
              online == PlayersOnline(DecodedJson)
          IN  /\ Get(result, KeyOnline) = JBool(TRUE)
              /\ (online.t = "num" /\ online.n > 0) =>
                    Get(Get(result, KeyPlayers), KeyNicknames)
                       = JStr(NamesInOrder(Get(Get(DecodedJson, KeyPlayers), KeySample).a))
              /\ (online.t = "num" /\ online.n = 0) =>
                    Get(Get(result, KeyPlayers), KeyNicknames) = JUndefined
              /\ StripDerived(result) = StripDerived(DecodedJson)

\* resolved with two players: nicknames is "Alice, Bob"
C9_Witness ==
    /\ Len(calls) = 1 /\ calls[1].op = "resolve"
    /\ PlayersOnline(calls[1].val) = JNum(2)
    /\ Get(Get(calls[1].val, KeyPlayers), KeyNicknames)
          = JStr(<<65, 108, 105, 99, 101, 44, 32, 66, 111, 98>>)

\* parseStatusResponse throws 'Incomplete data' on these bytes
IsIncompleteData(buf) ==
    LET parsed == parseStatusResponse(buf)
    IN  parsed.thrown /\ parsed.message = "Incomplete data"

(* C13: in the status session, whenever parsing the accumulated bytes      *)
(* signals incomplete data, the 'data' handler keeps the session waiting:  *)
(* it makes no resolve or reject call, does not end or destroy the socket, *)
(* leaves hasReceivedResponse alone and keeps the accumulated bytes; and   *)
(* in no state has reject been called with 'Incomplete data'.              *)
C13_IncompleteWaits ==
    /\ [][(ev' = "data" /\ IsIncompleteData(data \o chunk')) =>
             /\ data' = data \o chunk'
             /\ calls' = calls
             /\ UNCHANGED <<sockState, endCalled, destroys, hasReceivedResponse>>
         ]_vars
    /\ [](\A i \in 1..Len(calls) : calls[i] # Reject("Incomplete data"))

\* the outer packet is complete but the JSON bytes are not: the session waits
C13_Witness ==
    /\ ev = "data" /\ resp = ShortLengthFrame(TextIdle)
    /\ Len(data) > 4 /\ Len(data) < Len(resp)
    /\ IsIncompleteData(data)
    /\ calls = <<>> /\ sockState = "open" /\ ~endCalled /\ ~hasReceivedResponse

\* the session has completed successfully
StatusSucceeded == calls # <<>> /\ calls[1].op = "resolve"

(* C14: in the status session, an 'end' or 'close' event that comes while  *)
(* no response has been parsed calls reject('Connection closed without     *)
(* valid response'), which is the session's outcome when nothing was       *)
(* called before; once the session has resolved, 'end' and 'close' events  *)
(* call neither resolve nor reject.                                        *)
C14_ClosedPrematurely ==
    [][(ev' \in {"end", "close"}) =>
          /\ ~hasReceivedResponse =>
                calls' = Append(calls, Reject("Connection closed without valid response"))
          /\ StatusSucceeded => calls' = calls
      ]_vars

\* the peer ended the connection after part of the response had arrived
C14_Witness ==
    /\ ev = "end" /\ peerEnded /\ ~hasReceivedResponse
    /\ data # <<>> /\ Len(data) < Len(resp)
    /\ calls = <<Reject("Connection closed without valid response")>>

(* C16: in the status session, when the bytes of a complete packet whose   *)
(* packet id is not 0 have arrived, the 'data' handler rejects with        *)
(* 'Unexpected packet ID' (and ends the socket), whatever follows the id;  *)
(* a session answered with such a packet never calls resolve.              *)
C16_UnexpectedPacketId ==
    /\ [][(ev' = "data" /\ resp \in NonZeroIdResponses /\ data' = resp) =>
             /\ calls' = <<Reject("Unexpected packet ID")>>
             /\ endCalled' /\ ~hasReceivedResponse'
         ]_vars
    /\ [](resp \in NonZeroIdResponses => \A i \in 1..Len(calls) : calls[i].op # "resolve")

\* a packet with the 2-byte id 300 has arrived in several chunks
C16_Witness ==
    /\ ev = "data" /\ resp = StatusFrame(300, TextBroken)
    /\ data = resp /\ Len(chunk) < Len(resp)
    /\ calls = <<Reject("Unexpected packet ID")>>

HandshakePacket == createHandshakePacket(Host, Port)

\* length 1, packet id 0x00
StatusRequestBytes == <<1, 0>>

(* C19: in the status session the connect callback writes the handshake    *)
(* packet and then the status-request packet; no other handler writes, so  *)
(* these are the session's only two writes, and every 'data' handler runs  *)
(* after them.                                                             *)
C19_HandshakeThenRequest ==
    [][/\ ev' = "connect" =>
            (written = <<>> /\ written' = <<HandshakePacket, StatusRequestBytes>>)
       /\ ev' # "connect" => written' = written
       /\ ev' = "data" => written = <<HandshakePacket, StatusRequestBytes>>
      ]_vars

\* a response has been processed after the two packets went out
C19_Witness ==
    /\ ev = "data" /\ hasReceivedResponse
    /\ written = <<HandshakePacket, StatusRequestBytes>>
    /\ Len(HandshakePacket) = 1 + HandshakePacket[1] /\ HandshakePacket[2] = 0

----------------------------------------------------------------------------
(* Both kinds of session                                                   *)

InitSessions == InitStatus \/ InitRcon

NextSessions ==
    \/ kind = "status" /\ NextStatus
    \/ kind = "rcon" /\ NextRcon

SpecSessions == InitSessions /\ [][NextSessions]_vars

TimeoutMessage ==
    IF kind = "status" THEN "Connection timeout" ELSE "RCON connection timeout"

\* no 'data' event has been emitted yet
NoDataYet == chunk = <<>>

(* C12: in either kind of session, when the timeout fires before any data  *)
(* has been received, the session fails with the timeout error (the first  *)
(* and only call is reject('Connection timeout') / reject('RCON connection *)
(* timeout')) and the socket is destroyed exactly once, then and later.    *)
C12_TimeoutBeforeData ==
    /\ [][(ev' = "timeout" /\ NoDataYet) =>
             /\ calls' = <<Reject(TimeoutMessage)>>
             /\ sockState' = "destroyed"
             /\ destroys' = 1
         ]_vars
    /\ []((NoDataYet /\ calls # <<>> /\ Head(calls) = Reject(TimeoutMessage)) =>
             (destroys = 1 /\ sockState \in {"destroyed", "closed"}))

\* an RCON session timed out after the auth packet went out and nothing came back
C12_Witness ==
    /\ kind = "rcon" /\ ev = "timeout" /\ NoDataYet
    /\ Len(written) = 1
    /\ calls = <<Reject("RCON connection timeout")>>
    /\ destroys = 1

\* the timeout option of the call, undefined when the caller gave none
TimeoutOption == Get(debug, KeyTimeout)

DefaultTimeoutMs == IF kind = "status" THEN StatusTimeoutMs ELSE RconTimeoutMs

(* C17 (refuted by the code): the timeout armed on the session's socket is *)
(* the caller's timeout option when one is given, and otherwise the        *)
(* default, 10000 ms for a status query and 5000 ms for an RCON command.   *)
C17_ArmedTimeout ==
    timeoutMs = IF TimeoutOption # JUndefined THEN TimeoutOption.n ELSE DefaultTimeoutMs

----------------------------------------------------------------------------
(* Progress.  Time passes, and a socket that has been idle for the armed   *)
(* time emits 'timeout'; nothing obliges the peer to connect, to answer or *)
(* to close.                                                               *)

SpecLive ==
    /\ InitSessions /\ [][NextSessions]_vars
    /\ WF_vars(Tick)
    /\ WF_vars(kind = "status" /\ StatusTimeout)
    /\ WF_vars(kind = "rcon" /\ RconTimeout)

(* C20 (refuted by the code): every session eventually reaches a terminal  *)
(* outcome: resolve or reject is eventually called, also when the peer     *)
(* keeps sending data that completes nothing the session waits for.        *)
C20_EventuallyTerminal == <>(calls # <<>>)

====
